---- MODULE Spec2Model ----
(***************************************************************************)
(* The tenant connection router (db-manager.js, companyMiddleware) and the *)
(* inventory ledger routes of server.js, as a state machine.  Every        *)
(* request is a process that moves from one database round trip (await)    *)
(* to the next; the synchronous code between two awaits is one step.       *)
(***************************************************************************)
EXTENDS Integers, Sequences, FiniteSets, TLC

VARIABLES
  db,               \* db[slug]: the Product collection of company database slug
  connectionCache,  \* db-manager.js connectionCache: slug -> connection, or NoConn
  conns,            \* every connection mongoose.createConnection has returned
  req,              \* req[r]: the request that slot r is serving
  nextId,           \* the next ObjectId the driver hands out
  issued,           \* requests received so far
  shutdown          \* the call of closeAllConnections, if one was made

vars == <<db, connectionCache, conns, req, nextId, issued, shutdown>>

----------------------------------------------------------------------------
(* Bounds of the model *)

MaxOps == 2         \* requests received in one behaviour, overlapping
MaxSeqOps == 2      \* requests received in one behaviour, one at a time
MaxQty == 2         \* largest quantity a request body carries

Procs == {1, 2}     \* requests that can be in flight together

DefaultSlug == "barcode"       \* config.DEFAULT_COMPANY_SLUG
Slugs == {"barcode", "acme"}   \* company databases
ActiveCompanies == Slugs       \* Company documents with isActive: true

NoHeader == "<none>"           \* request without x-company-slug
NoConn == 0
None == "<null>"               \* null / undefined

(* A barcode is a string; <<1>> stands for "X", a token 0 for a blank, and  *)
(* Append(b, k) for the template literal `${b}(${k})`.                      *)
BarcodeInputs == {<<1>>, <<1, 1>>}
QtyInputs == (0 - 1)..MaxQty   \* parseInt(quantity); NaN behaves as 0 at both uses
NameInputs == {"n1"}
CategoryInputs == {None, "cat1"}

SuperAdmin == [isSuperAdmin |-> TRUE, companyAccess |-> {}]
LegacyUser == [isSuperAdmin |-> FALSE, companyAccess |-> {}]
AcmeUser == [isSuperAdmin |-> FALSE, companyAccess |-> {"acme"}]
BothUser == [isSuperAdmin |-> FALSE, companyAccess |-> {"barcode", "acme"}]
Users == {SuperAdmin, LegacyUser, AcmeUser, BothUser}

----------------------------------------------------------------------------
(* Strings *)

RECURSIVE TrimLeft(_)
TrimLeft(s) == IF s # <<>> /\ Head(s) = 0 THEN TrimLeft(Tail(s)) ELSE s

RECURSIVE TrimRight(_)
TrimRight(s) ==
  IF s # <<>> /\ s[Len(s)] = 0 THEN TrimRight(SubSeq(s, 1, Len(s) - 1)) ELSE s

Trim(s) == TrimRight(TrimLeft(s))

(* mutant: the suffix is one ahead of the counter *)
WithSuffixAhead(barcode, counter) == Append(barcode, counter + 1)

WithSuffix(barcode, counter) == Append(barcode, counter)

----------------------------------------------------------------------------
(* Responses *)

Response(status, message) == [status |-> status, message |-> message]
Pending == Response(0, "")

----------------------------------------------------------------------------
(* The Product collection of one company database *)

(* a note is free text; its interpolated part, if any, is kept beside it *)
Note(text, barcode, slug) == <<text, barcode, slug>>
PlainNote(text) == Note(text, <<>>, "")

Movement(type, quantity, note) ==
  [type |-> type, quantity |-> quantity, note |-> note]

NewProduct(id, barcode, name, currentStock, category, stockHistory) ==
  [id |-> id, barcode |-> Trim(barcode), name |-> name,
   currentStock |-> currentStock, category |-> category,
   stockHistory |-> stockHistory]

NoDoc == [id |-> 0]            \* findOne found nothing

(* mutant: a query that matches nothing returns some document *)
FindOneAny(coll, barcode) ==
  IF \E p \in coll : p.barcode = barcode
  THEN CHOOSE p \in coll : p.barcode = barcode
  ELSE IF coll # {} THEN CHOOSE p \in coll : TRUE
  ELSE [id |-> 0]

FindOne(coll, barcode) ==
  IF \E p \in coll : p.barcode = barcode
  THEN CHOOSE p \in coll : p.barcode = barcode
  ELSE NoDoc

FindById(coll, id) ==
  IF \E p \in coll : p.id = id THEN CHOOSE p \in coll : p.id = id ELSE NoDoc

(* schema validator run by save(): currentStock has min: 0 *)
ValidProduct(p) == p.currentStock >= 0

(* the unique index on barcode *)
(* mutant: the collection has no unique index *)
BarcodeFreeAlways(coll, barcode, id) == TRUE

BarcodeFree(coll, barcode, id) ==
  \A p \in coll : p.barcode = barcode => p.id = id

(* save() of a new document: validate, then insert under the unique index *)
CanInsert(coll, p) == ValidProduct(p) /\ BarcodeFree(coll, p.barcode, p.id)

(* save() of a loaded document sends only what the handler changed: $set of *)
(* the assigned paths and $push of the appended movements, filtered by _id. *)
Modified(doc, local) ==
  {f \in {"barcode", "name", "currentStock", "category"} : local[f] # doc[f]}

Pushed(doc, local) ==
  SubSeq(local.stockHistory, Len(doc.stockHistory) + 1, Len(local.stockHistory))

(* mutant: save() writes the whole document as the handler holds it *)
ApplyUpdateWhole(stored, doc, local) ==
  [f \in DOMAIN stored |-> local[f]]

(* mutant: the counter is sent as $inc of the handler's difference *)
ApplyUpdateInc(stored, doc, local) ==
  [f \in DOMAIN stored |->
     IF f = "stockHistory" THEN stored.stockHistory \o Pushed(doc, local)
     ELSE IF f = "currentStock"
     THEN stored.currentStock + (local.currentStock - doc.currentStock)
     ELSE IF f \in Modified(doc, local) THEN local[f]
     ELSE stored[f]]

ApplyUpdate(stored, doc, local) ==
  [f \in DOMAIN stored |->
     IF f = "stockHistory" THEN stored.stockHistory \o Pushed(doc, local)
     ELSE IF f \in Modified(doc, local) THEN local[f]
     ELSE stored[f]]

CanUpdate(coll, doc, local) ==
  /\ ValidProduct(local)
  /\ FindById(coll, doc.id) # NoDoc
  /\ BarcodeFree(coll, ApplyUpdate(FindById(coll, doc.id), doc, local).barcode,
                 doc.id)

(* mutant: the update is sent without the _id filter *)
UpdatedUnfiltered(coll, doc, local) ==
  {ApplyUpdate(p, doc, local) : p \in coll}

Updated(coll, doc, local) ==
  (coll \ {FindById(coll, doc.id)})
    \cup {ApplyUpdate(FindById(coll, doc.id), doc, local)}

----------------------------------------------------------------------------
(* Tenant registry: db-manager.js *)

Connected == 1                  \* readyState of a live connection

(* mutant: the cached connection is never taken for live *)
CacheLiveNever(cache, cs, slug) == FALSE

CacheLive(cache, cs, slug) ==
  cache[slug] # NoConn /\ cs[cache[slug]].readyState = Connected

(* mutant: a stale entry stays in the Map *)
CacheAfterCheckKeep(cache, cs, slug) == cache

(* the synchronous head of getCompanyConnection: a stale entry is deleted *)
CacheAfterCheck(cache, cs, slug) ==
  IF cache[slug] # NoConn /\ ~CacheLive(cache, cs, slug)
  THEN [cache EXCEPT ![slug] = NoConn]
  ELSE cache

NewConnection(slug) == [slug |-> slug, readyState |-> Connected]

Disconnected == 0               \* readyState of a closed or lost connection

(* the keys of the Map, as the connections they hold *)
Entries(cache) == {cache[s] : s \in {t \in Slugs : cache[t] # NoConn}}

(* the Map iterates in insertion order, and a key is inserted when its      *)
(* connection is created: the entries an iterator standing at last has     *)
(* still to visit, and the one it visits next                              *)
After(cache, last) == {c \in Entries(cache) : c > last}

First(entries) == CHOOSE c \in entries : \A d \in entries : c <= d

StatusNames == <<"disconnected", "connected", "connecting", "disconnecting">>

(* mutant: the status names are read one place off *)
GetConnectionStatusShifted(cache, cs) ==
  {<<slug, cs[cache[slug]].readyState,
     StatusNames[cs[cache[slug]].readyState + 2]>> :
     slug \in {s \in Slugs : cache[s] # NoConn}}

(* getConnectionStatus: one entry per key of the Map *)
GetConnectionStatus(cache, cs) ==
  {<<slug, cs[cache[slug]].readyState,
     StatusNames[cs[cache[slug]].readyState + 1]>> :
     slug \in {s \in Slugs : cache[s] # NoConn}}

(* closeAllConnections has not been called *)
NotCalled == [pc |-> "idle", at |-> NoConn, res |-> ""]

Returned(at, res) == [pc |-> "done", at |-> at, res |-> res]

----------------------------------------------------------------------------
(* Requests *)

Blank ==
  [pc |-> "idle", op |-> "", user |-> SuperAdmin, companySlug |-> "",
   barcode |-> <<>>, quantity |-> 0, name |-> "",
   category |-> None, newBarcode |-> <<>>, targetCompanySlug |-> "",
   keepOriginal |-> FALSE, doc |-> NoDoc, cand |-> <<>>, counter |-> 0,
   conn |-> NoConn, targetConn |-> NoConn, savedId |-> 0, at |-> "",
   res |-> Pending, connections |-> {}]

(* res.status(..).json(..): the request is over and its locals are gone;   *)
(* what stays is the response and the await it was sent after              *)
Finish(rec, status, message) ==
  [Blank EXCEPT !.pc = "done", !.op = rec.op, !.at = rec.pc,
                !.res = Response(status, message)]

(* the 403 of companyMiddleware, with whom it was sent to and for which slug *)
Deny(rec) ==
  [Finish(rec, 403, "No access to this company") EXCEPT
     !.user = rec.user, !.companySlug = rec.companySlug]

Goto(rec, pc) == [rec EXCEPT !.pc = pc]

(* companyMiddleware, access check *)
(* mutant: a request without the header is routed to another company *)
RequestedSlugOther(header) == IF header = NoHeader THEN "acme" ELSE header

RequestedSlug(header) == IF header = NoHeader THEN DefaultSlug ELSE header

(* mutant: the grant list is never matched *)
HasAccessNever(user, slug) == FALSE

HasAccess(user, slug) == slug \in user.companyAccess

LegacyAccess(user) == user.companyAccess = {}

(* mutant: any principal with a grant list is let through *)
AdmitsGranted(user, slug) ==
  user.isSuperAdmin \/ user.companyAccess # {} \/ LegacyAccess(user)

Admits(user, slug) ==
  user.isSuperAdmin \/ HasAccess(user, slug) \/ LegacyAccess(user)

(* add-stock / remove-stock *)
(* mutant: a quantity of 0 passes *)
ValidQuantityZero(q) == q >= 0

ValidQuantity(q) == ~(q = 0 \/ q <= 0)

EnterStock(rec) ==
  IF ~ValidQuantity(rec.quantity)
  THEN Finish(rec, 400, "Valid quantity is required")
  ELSE Goto(rec, IF rec.op = "add" THEN "add_find" ELSE "remove_find")

(* mutant: the comparison is off by one *)
InsufficientOffByOne(currentStock, removeQuantity) ==
  currentStock + 1 < removeQuantity

Insufficient(currentStock, removeQuantity) == currentStock < removeQuantity

(* mutant: the movement is pushed but the counter is left alone *)
AddLocalNoCount(doc, q) ==
  [doc EXCEPT !.stockHistory =
                 Append(doc.stockHistory, Movement("add", q, PlainNote("")))]

AddLocal(doc, q) ==
  [doc EXCEPT !.currentStock = doc.currentStock + q,
              !.stockHistory = Append(doc.stockHistory, Movement("add", q, PlainNote("")))]

(* mutant: the counter is lowered and no movement is pushed *)
RemoveLocalNoPush(doc, q) == [doc EXCEPT !.currentStock = doc.currentStock - q]

RemoveLocal(doc, q) ==
  [doc EXCEPT !.currentStock = doc.currentStock - q,
              !.stockHistory =
                 Append(doc.stockHistory, Movement("remove", q, PlainNote("")))]

(* create *)
EnterCreate(rec) ==
  IF rec.barcode = <<>> \/ rec.name = ""
  THEN Finish(rec, 400, "Barcode and name are required")
  ELSE Goto(rec, "create_find")

(* mutant: the history starts with a movement whatever the quantity *)
InitialHistoryAlways(initialQuantity) ==
  <<Movement("add", initialQuantity, PlainNote("Initial stock"))>>

InitialHistory(initialQuantity) ==
  IF initialQuantity > 0
  THEN <<Movement("add", initialQuantity, PlainNote("Initial stock"))>>
  ELSE <<>>

(* duplicate *)
DuplicateHistory(original, barcode) ==
  IF original.currentStock > 0
  THEN <<Movement("add", original.currentStock,
                  Note("Duplicated from", barcode, ""))>>
  ELSE <<>>

(* transfer *)
(* mutant: the source's own history is carried over *)
TransferHistoryCopied(source, slug) == source.stockHistory

TransferHistory(source, slug) ==
  <<Movement("add", source.currentStock, Note("Transferred from", <<>>, slug))>>

TargetAccess(user, target) == user.isSuperAdmin \/ HasAccess(user, target)

(* mutant: the target is not compared with the request's own company *)
EnterTransferAnyTarget(rec) ==
  IF rec.targetCompanySlug = ""
  THEN Finish(rec, 400, "Target company slug is required")
  ELSE IF ~TargetAccess(rec.user, rec.targetCompanySlug)
  THEN Finish(rec, 403, "No access to target company")
  ELSE Goto(rec, "transfer_find")

EnterTransfer(rec) ==
  IF rec.targetCompanySlug = ""
  THEN Finish(rec, 400, "Target company slug is required")
  ELSE IF rec.targetCompanySlug = rec.companySlug
  THEN Finish(rec, 400, "Cannot transfer to the same company")
  ELSE IF ~TargetAccess(rec.user, rec.targetCompanySlug)
  THEN Finish(rec, 403, "No access to target company")
  ELSE Goto(rec, "transfer_find")

(* update *)
NoBarcode == <<>>              \* newBarcode undefined
ChangesBarcode(rec) ==
  rec.newBarcode # NoBarcode /\ Trim(rec.newBarcode) # Trim(rec.barcode)

(* what stays of a finished move: the copy it saved *)
Moved(rec) ==
  [Finish(rec, 200, "Product transferred to target company") EXCEPT
     !.targetCompanySlug = rec.targetCompanySlug, !.savedId = rec.savedId]

(* mutant: the new barcode is checked but never assigned *)
UpdateLocalKeepsBarcode(doc, rec) ==
  [doc EXCEPT !.name = IF rec.name # None THEN rec.name ELSE @]

UpdateLocal(doc, rec) ==
  [doc EXCEPT !.barcode = IF ChangesBarcode(rec) THEN Trim(rec.newBarcode) ELSE @,
              !.name = IF rec.name # None THEN rec.name ELSE @]

(* the handler's code up to its first await *)
Enter(rec) ==
  CASE rec.op \in {"add", "remove"} -> EnterStock(rec)
    [] rec.op = "create" -> EnterCreate(rec)
    [] rec.op = "duplicate" -> Goto(rec, "duplicate_find")
    [] rec.op = "transfer" -> EnterTransfer(rec)
    [] rec.op = "update" -> Goto(rec, "update_find")
    [] rec.op = "delete" -> Goto(rec, "delete_find")

----------------------------------------------------------------------------
(* Steps.  A query that throws is answered by the handler's catch with a   *)
(* 500 and changes nothing; the steps below let the writes and the          *)
(* connection attempts fail, which is where a failure can leave work half   *)
(* done.  The category of an update is left undefined in the request bodies. *)

Reply(r, rec) == req' = [req EXCEPT ![r] = rec]

(* a request arrives: authMiddleware has set req.user; companyMiddleware     *)
(* runs up to the await inside getCompanyConnection, or, on a cache hit,     *)
(* through to the handler's first await                                      *)
(* Slots only tell overlapping requests apart: a request takes the lowest   *)
(* slot that is not serving one.                                            *)
Start(r, rq, header, limit) ==
  /\ req[r].pc \in {"idle", "done"}
  /\ \A other \in Procs : other < r => req[other].pc \notin {"idle", "done"}
  /\ issued < limit
  /\ issued' = issued + 1
  /\ LET slug == RequestedSlug(header)
         rec == [rq EXCEPT !.companySlug = slug]
     IN IF ~Admits(rq.user, slug)
        THEN /\ Reply(r, Deny(rec))
             /\ UNCHANGED connectionCache
        ELSE IF CacheLive(connectionCache, conns, slug)
        THEN /\ Reply(r, Enter([rec EXCEPT !.conn = connectionCache[slug]]))
             /\ UNCHANGED connectionCache
        ELSE /\ Reply(r, Goto(rec, "connecting"))
             /\ connectionCache' = CacheAfterCheck(connectionCache, conns, slug)
  /\ UNCHANGED <<db, conns, nextId, shutdown>>

(* mutant: a failed attempt is put into the Map *)
ConnectCachesFailure(r) ==
  /\ req[r].pc = "connecting"
  /\ \E ok \in BOOLEAN :
       /\ conns' = Append(conns, [NewConnection(req[r].companySlug) EXCEPT
                                   !.readyState = IF ok THEN Connected
                                                  ELSE Disconnected])
       /\ connectionCache' =
            [connectionCache EXCEPT ![req[r].companySlug] = Len(conns) + 1]
       /\ IF ok
          THEN Reply(r, Enter([req[r] EXCEPT !.conn = Len(conns) + 1]))
          ELSE Reply(r, Finish(req[r], 500,
                               "Failed to connect to company database"))
  /\ UNCHANGED <<db, nextId, issued, shutdown>>

(* mongoose.createConnection settles *)
Connect(r) ==
  /\ req[r].pc = "connecting"
  /\ \E ok \in BOOLEAN :
       IF ok
       THEN /\ conns' = Append(conns, NewConnection(req[r].companySlug))
            /\ connectionCache' =
                 [connectionCache EXCEPT ![req[r].companySlug] = Len(conns) + 1]
            /\ Reply(r, Enter([req[r] EXCEPT !.conn = Len(conns) + 1]))
       ELSE /\ Reply(r, Finish(req[r], 500,
                               "Failed to connect to company database"))
            /\ UNCHANGED <<conns, connectionCache>>
  /\ UNCHANGED <<db, nextId, issued, shutdown>>

Coll(r) == db[req[r].companySlug]

AddFind(r) ==
  /\ req[r].pc = "add_find"
  /\ LET product == FindOne(Coll(r), Trim(req[r].barcode))
     IN IF product = NoDoc
        THEN Reply(r, Finish(req[r], 404, "Product not found"))
        ELSE Reply(r, Goto([req[r] EXCEPT !.doc = product], "add_save"))
  /\ UNCHANGED <<db, connectionCache, conns, nextId, issued, shutdown>>

RemoveFind(r) ==
  /\ req[r].pc = "remove_find"
  /\ LET product == FindOne(Coll(r), Trim(req[r].barcode))
     IN IF product = NoDoc
        THEN Reply(r, Finish(req[r], 404, "Product not found"))
        ELSE IF Insufficient(product.currentStock, req[r].quantity)
        THEN Reply(r, Finish(req[r], 400, "Insufficient stock"))
        ELSE Reply(r, Goto([req[r] EXCEPT !.doc = product], "remove_save"))
  /\ UNCHANGED <<db, connectionCache, conns, nextId, issued, shutdown>>

(* mutant: every company's model writes to the default database *)
SaveLoadedShared(r, local, failure) ==
  \E ok \in BOOLEAN :
    IF ok /\ CanUpdate(Coll(r), req[r].doc, local)
    THEN /\ db' = [db EXCEPT ![DefaultSlug] =
                      Updated(Coll(r), req[r].doc, local)]
         /\ Reply(r, Finish(req[r], 200, "ok"))
    ELSE /\ Reply(r, Finish(req[r], 500, failure))
         /\ UNCHANGED db

(* product.save() of a loaded document settles *)
SaveLoaded(r, local, failure) ==
  \E ok \in BOOLEAN :
    IF ok /\ CanUpdate(Coll(r), req[r].doc, local)
    THEN /\ db' = [db EXCEPT ![req[r].companySlug] =
                      Updated(Coll(r), req[r].doc, local)]
         /\ Reply(r, Finish(req[r], 200, "ok"))
    ELSE /\ Reply(r, Finish(req[r], 500, failure))
         /\ UNCHANGED db

AddSave(r) ==
  /\ req[r].pc = "add_save"
  /\ SaveLoaded(r, AddLocal(req[r].doc, req[r].quantity), "Failed to add stock")
  /\ UNCHANGED <<connectionCache, conns, nextId, issued, shutdown>>

RemoveSave(r) ==
  /\ req[r].pc = "remove_save"
  /\ SaveLoaded(r, RemoveLocal(req[r].doc, req[r].quantity),
                "Failed to remove stock")
  /\ UNCHANGED <<connectionCache, conns, nextId, issued, shutdown>>

CreateFind(r) ==
  /\ req[r].pc = "create_find"
  /\ IF FindOne(Coll(r), Trim(req[r].barcode)) # NoDoc
     THEN Reply(r, Finish(req[r], 409,
                          "Product with this barcode already exists"))
     ELSE Reply(r, Goto(req[r], "create_save"))
  /\ UNCHANGED <<db, connectionCache, conns, nextId, issued, shutdown>>

(* product.save() of a new document settles *)
SaveNew(r, dbname, product, okRec, failure) ==
  \E ok \in BOOLEAN :
    IF ok /\ CanInsert(db[dbname], product)
    THEN /\ db' = [db EXCEPT ![dbname] = db[dbname] \cup {product}]
         /\ Reply(r, okRec)
    ELSE /\ Reply(r, Finish(req[r], 500, failure))
         /\ UNCHANGED db

CreateSave(r) ==
  /\ req[r].pc = "create_save"
  /\ LET initialQuantity == req[r].quantity
         product == NewProduct(nextId, req[r].barcode, req[r].name,
                               initialQuantity, req[r].category,
                               InitialHistory(initialQuantity))
     IN SaveNew(r, req[r].companySlug, product,
                Finish(req[r], 201, "ok"), "Failed to create product")
  /\ nextId' = IF db' # db THEN nextId + 1 ELSE nextId
  /\ UNCHANGED <<connectionCache, conns, issued, shutdown>>

DuplicateFind(r) ==
  /\ req[r].pc = "duplicate_find"
  /\ LET originalProduct == FindOne(Coll(r), Trim(req[r].barcode))
     IN IF originalProduct = NoDoc
        THEN Reply(r, Finish(req[r], 404, "Product not found"))
        ELSE Reply(r, [req[r] EXCEPT !.pc = "duplicate_probe",
                                     !.doc = originalProduct,
                                     !.counter = 1,
                                     !.cand = WithSuffix(req[r].barcode, 1)])
  /\ UNCHANGED <<db, connectionCache, conns, nextId, issued, shutdown>>

(* mutant: the loop counts on but looks the same candidate up again *)
DuplicateProbeStuck(r) ==
  /\ req[r].pc = "duplicate_probe"
  /\ IF FindOne(Coll(r), req[r].cand) # NoDoc
     THEN Reply(r, [req[r] EXCEPT !.counter = @ + 1])
     ELSE Reply(r, Goto(req[r], "duplicate_save"))
  /\ UNCHANGED <<db, connectionCache, conns, nextId, issued, shutdown>>

(* one findOne of the while loop *)
DuplicateProbe(r) ==
  /\ req[r].pc = "duplicate_probe"
  /\ IF FindOne(Coll(r), req[r].cand) # NoDoc
     THEN Reply(r, [req[r] EXCEPT
                      !.counter = @ + 1,
                      !.cand = WithSuffix(req[r].barcode, req[r].counter + 1)])
     ELSE Reply(r, Goto(req[r], "duplicate_save"))
  /\ UNCHANGED <<db, connectionCache, conns, nextId, issued, shutdown>>

DuplicateSave(r) ==
  /\ req[r].pc = "duplicate_save"
  /\ LET originalProduct == req[r].doc
         product == NewProduct(nextId, req[r].cand, originalProduct.name,
                               originalProduct.currentStock,
                               originalProduct.category,
                               DuplicateHistory(originalProduct, req[r].barcode))
     IN SaveNew(r, req[r].companySlug, product, Finish(req[r], 201, "ok"),
                "Failed to duplicate product")
  /\ nextId' = IF db' # db THEN nextId + 1 ELSE nextId
  /\ UNCHANGED <<connectionCache, conns, issued, shutdown>>

(* Company.findOne, then the source findOne, then the head of              *)
(* getCompanyConnection(targetCompanySlug)                                 *)
TransferFind(r) ==
  /\ req[r].pc = "transfer_find"
  /\ LET target == req[r].targetCompanySlug
         sourceProduct == FindOne(Coll(r), Trim(req[r].barcode))
     IN IF target \notin ActiveCompanies
        THEN /\ Reply(r, Finish(req[r], 404, "Target company not found"))
             /\ UNCHANGED connectionCache
        ELSE IF sourceProduct = NoDoc
        THEN /\ Reply(r, Finish(req[r], 404, "Product not found"))
             /\ UNCHANGED connectionCache
        ELSE IF CacheLive(connectionCache, conns, target)
        THEN /\ Reply(r, [req[r] EXCEPT !.pc = "transfer_probe",
                                        !.doc = sourceProduct,
                                        !.targetConn = connectionCache[target],
                                        !.cand = sourceProduct.barcode])
             /\ UNCHANGED connectionCache
        ELSE /\ Reply(r, [req[r] EXCEPT !.pc = "transfer_connecting",
                                        !.doc = sourceProduct])
             /\ connectionCache' = CacheAfterCheck(connectionCache, conns, target)
  /\ UNCHANGED <<db, conns, nextId, issued, shutdown>>

TransferConnect(r) ==
  /\ req[r].pc = "transfer_connecting"
  /\ \E ok \in BOOLEAN :
       IF ok
       THEN /\ conns' = Append(conns, NewConnection(req[r].targetCompanySlug))
            /\ connectionCache' =
                 [connectionCache EXCEPT ![req[r].targetCompanySlug] =
                                           Len(conns) + 1]
            /\ Reply(r, [req[r] EXCEPT !.pc = "transfer_probe",
                                       !.targetConn = Len(conns) + 1,
                                       !.cand = req[r].doc.barcode])
       ELSE /\ Reply(r, Finish(req[r], 500, "Failed to transfer product"))
            /\ UNCHANGED <<conns, connectionCache>>
  /\ UNCHANGED <<db, nextId, issued, shutdown>>

(* mutant: the copy is saved under the source barcode without a lookup *)
TransferProbeBlind(r) ==
  /\ req[r].pc = "transfer_probe"
  /\ Reply(r, Goto(req[r], "transfer_save"))
  /\ UNCHANGED <<db, connectionCache, conns, nextId, issued, shutdown>>

(* mutant: the source barcode is never kept, the first suffix is tried *)
TransferProbeSuffixFirst(r) ==
  /\ req[r].pc = "transfer_probe"
  /\ IF req[r].counter = 0
        \/ FindOne(db[req[r].targetCompanySlug], req[r].cand) # NoDoc
     THEN Reply(r, [req[r] EXCEPT
                      !.counter = @ + 1,
                      !.cand = WithSuffix(req[r].doc.barcode,
                                          req[r].counter + 1)])
     ELSE Reply(r, Goto(req[r], "transfer_save"))
  /\ UNCHANGED <<db, connectionCache, conns, nextId, issued, shutdown>>

(* one TargetProduct.findOne: the first check, or one turn of the loop *)
TransferProbe(r) ==
  /\ req[r].pc = "transfer_probe"
  /\ IF FindOne(db[req[r].targetCompanySlug], req[r].cand) # NoDoc
     THEN Reply(r, [req[r] EXCEPT
                      !.counter = @ + 1,
                      !.cand = WithSuffix(req[r].doc.barcode,
                                          req[r].counter + 1)])
     ELSE Reply(r, Goto(req[r], "transfer_save"))
  /\ UNCHANGED <<db, connectionCache, conns, nextId, issued, shutdown>>

(* mutant: a move deletes the source in the step that saves the copy *)
TransferSaveEager(r) ==
  /\ req[r].pc = "transfer_save"
  /\ LET sourceProduct == req[r].doc
         source == req[r].companySlug
         target == req[r].targetCompanySlug
         product == NewProduct(nextId, req[r].cand, sourceProduct.name,
                               sourceProduct.currentStock, None,
                               TransferHistory(sourceProduct, source))
         left == IF req[r].keepOriginal THEN db[source]
                 ELSE db[source] \ {FindOne(db[source], Trim(req[r].barcode))}
     IN \E ok \in BOOLEAN :
          IF ok /\ CanInsert(db[target], product)
          THEN /\ db' = [db EXCEPT ![target] = db[target] \cup {product},
                                   ![source] = left]
               /\ Reply(r, Finish(req[r], 200, "ok"))
          ELSE /\ db' = [db EXCEPT ![source] = left]
               /\ Reply(r, Finish(req[r], 500, "Failed to transfer product"))
  /\ nextId' = nextId + 1
  /\ UNCHANGED <<connectionCache, conns, issued, shutdown>>

(* mutant: the copy keeps the source's category *)
TransferSaveCategory(r) ==
  /\ req[r].pc = "transfer_save"
  /\ LET sourceProduct == req[r].doc
         product == NewProduct(nextId, req[r].cand, sourceProduct.name,
                               sourceProduct.currentStock,
                               sourceProduct.category,
                               TransferHistory(sourceProduct,
                                               req[r].companySlug))
     IN SaveNew(r, req[r].targetCompanySlug, product,
                IF req[r].keepOriginal
                THEN Finish(req[r], 200, "Product copied to target company")
                ELSE [req[r] EXCEPT !.pc = "transfer_delete",
                                    !.savedId = nextId],
                "Failed to transfer product")
  /\ nextId' = IF db' # db THEN nextId + 1 ELSE nextId
  /\ UNCHANGED <<connectionCache, conns, issued, shutdown>>

TransferSave(r) ==
  /\ req[r].pc = "transfer_save"
  /\ LET sourceProduct == req[r].doc
         product == NewProduct(nextId, req[r].cand, sourceProduct.name,
                               sourceProduct.currentStock, None,
                               TransferHistory(sourceProduct,
                                               req[r].companySlug))
     IN SaveNew(r, req[r].targetCompanySlug, product,
                IF req[r].keepOriginal
                THEN Finish(req[r], 200, "Product copied to target company")
                ELSE [req[r] EXCEPT !.pc = "transfer_delete",
                                    !.savedId = nextId],
                "Failed to transfer product")
  /\ nextId' = IF db' # db THEN nextId + 1 ELSE nextId
  /\ UNCHANGED <<connectionCache, conns, issued, shutdown>>

(* req.Product.deleteOne({ barcode }) settles *)
TransferDelete(r) ==
  /\ req[r].pc = "transfer_delete"
  /\ \E ok \in BOOLEAN :
       IF ok
       THEN /\ db' = [db EXCEPT ![req[r].companySlug] =
                        Coll(r) \ {FindOne(Coll(r), Trim(req[r].barcode))}]
            /\ Reply(r, Moved(req[r]))
       ELSE /\ Reply(r, Finish(req[r], 500, "Failed to transfer product"))
            /\ UNCHANGED db
  /\ UNCHANGED <<connectionCache, conns, nextId, issued, shutdown>>

UpdateFind(r) ==
  /\ req[r].pc = "update_find"
  /\ LET product == FindOne(Coll(r), Trim(req[r].barcode))
     IN IF product = NoDoc
        THEN Reply(r, Finish(req[r], 404, "Product not found"))
        ELSE Reply(r, [req[r] EXCEPT
                         !.doc = product,
                         !.pc = IF ChangesBarcode(req[r])
                                THEN "update_check" ELSE "update_save"])
  /\ UNCHANGED <<db, connectionCache, conns, nextId, issued, shutdown>>

UpdateCheck(r) ==
  /\ req[r].pc = "update_check"
  /\ IF FindOne(Coll(r), Trim(req[r].newBarcode)) # NoDoc
     THEN Reply(r, Finish(req[r], 400,
                          "A product with this barcode already exists"))
     ELSE Reply(r, Goto(req[r], "update_save"))
  /\ UNCHANGED <<db, connectionCache, conns, nextId, issued, shutdown>>

UpdateSave(r) ==
  /\ req[r].pc = "update_save"
  /\ SaveLoaded(r, UpdateLocal(req[r].doc, req[r]), "Failed to update product")
  /\ UNCHANGED <<connectionCache, conns, nextId, issued, shutdown>>

DeleteFind(r) ==
  /\ req[r].pc = "delete_find"
  /\ LET product == FindOne(Coll(r), Trim(req[r].barcode))
     IN IF product = NoDoc
        THEN Reply(r, Finish(req[r], 404, "Product not found"))
        ELSE Reply(r, Goto([req[r] EXCEPT !.doc = product], "delete_delete"))
  /\ UNCHANGED <<db, connectionCache, conns, nextId, issued, shutdown>>

(* findByIdAndDelete(product._id) settles *)
DeleteDelete(r) ==
  /\ req[r].pc = "delete_delete"
  /\ \E ok \in BOOLEAN :
       IF ok
       THEN /\ db' = [db EXCEPT ![req[r].companySlug] =
                        Coll(r) \ {FindById(Coll(r), req[r].doc.id)}]
            /\ Reply(r, Finish(req[r], 200, "Product deleted successfully"))
       ELSE /\ Reply(r, Finish(req[r], 500, "Failed to delete product"))
            /\ UNCHANGED db
  /\ UNCHANGED <<connectionCache, conns, nextId, issued, shutdown>>

----------------------------------------------------------------------------
(* The registry's other operations *)

(* GET /api/health: no middleware, no await *)
Health(r, limit) ==
  /\ req[r].pc \in {"idle", "done"}
  /\ issued < limit
  /\ issued' = issued + 1
  /\ Reply(r, [Blank EXCEPT
                 !.pc = "done", !.op = "health", !.res = Response(200, "ok"),
                 !.connections = GetConnectionStatus(connectionCache, conns)])
  /\ UNCHANGED <<db, connectionCache, conns, nextId, shutdown>>

(* the server loses a connection: its readyState leaves 1 *)
Drop(c) ==
  /\ c \in 1..Len(conns)
  /\ conns[c].readyState = Connected
  /\ conns' = [conns EXCEPT ![c].readyState = Disconnected]
  /\ UNCHANGED <<db, connectionCache, req, nextId, issued, shutdown>>

(* closeAllConnections is called: up to the first await connection.close(), *)
(* or through to connectionCache.clear() when the Map is empty              *)
CloseAllStart ==
  /\ shutdown.pc = "idle"
  /\ IF Entries(connectionCache) = {}
     THEN shutdown' = Returned(NoConn, "closed")
     ELSE shutdown' = [NotCalled EXCEPT !.pc = "closing",
                                        !.at = First(Entries(connectionCache))]
  /\ UNCHANGED <<db, connectionCache, conns, req, nextId, issued>>

(* connection.close() settles: the loop goes on to the next entry, or ends  *)
(* with connectionCache.clear(); a rejection leaves the function at once    *)
CloseAllSettle ==
  /\ shutdown.pc = "closing"
  /\ \E ok \in BOOLEAN :
       IF ok
       THEN /\ conns' = [conns EXCEPT ![shutdown.at].readyState = Disconnected]
            /\ IF After(connectionCache, shutdown.at) # {}
               THEN /\ shutdown' =
                         [shutdown EXCEPT
                            !.at = First(After(connectionCache, shutdown.at))]
                    /\ UNCHANGED connectionCache
               ELSE /\ shutdown' = Returned(shutdown.at, "closed")
                    /\ connectionCache' = [s \in Slugs |-> NoConn]
       ELSE /\ shutdown' = Returned(shutdown.at, "rejected")
            /\ UNCHANGED <<conns, connectionCache>>
  /\ UNCHANGED <<db, req, nextId, issued>>

----------------------------------------------------------------------------
(* Request bodies *)

StockRequests(B, Q) ==
  {[Blank EXCEPT !.op = o, !.barcode = b, !.quantity = q] :
     o \in {"add", "remove"}, b \in B, q \in Q}

CreateRequests(B, Q, C) ==
  {[Blank EXCEPT !.op = "create", !.barcode = b, !.quantity = q, !.name = n,
                 !.category = c] :
     b \in B, q \in Q, n \in NameInputs, c \in C}

DuplicateRequests(B) == {[Blank EXCEPT !.op = "duplicate", !.barcode = b] : b \in B}

TransferRequests(B) ==
  {[Blank EXCEPT !.op = "transfer", !.barcode = b, !.targetCompanySlug = t,
                 !.keepOriginal = k] :
     b \in B, t \in Slugs, k \in BOOLEAN}

UpdateRequests(B, N) ==
  {[Blank EXCEPT !.op = "update", !.barcode = b, !.newBarcode = nb,
                 !.name = n] :
     b \in B, nb \in N, n \in {None, "n2"}}

DeleteRequests(B) == {[Blank EXCEPT !.op = "delete", !.barcode = b] : b \in B}

LedgerRequests(B, Q, C, N) ==
  StockRequests(B, Q) \cup CreateRequests(B, Q, C) \cup DuplicateRequests(B)
    \cup TransferRequests(B) \cup UpdateRequests(B, N) \cup DeleteRequests(B)

As(requests, users) == {[rq EXCEPT !.user = u] : rq \in requests, u \in users}

Headers == {NoHeader} \cup Slugs

----------------------------------------------------------------------------

(* The process starts with an empty connectionCache over databases that    *)
(* earlier runs have filled: empty, or holding products that create         *)
(* requests have stored.                                                    *)
Stored(id, barcode, quantity) ==
  NewProduct(id, barcode, "n1", quantity, "cat1", InitialHistory(quantity))

StoredDbs ==
  { [s \in Slugs |-> {}],
    [s \in Slugs |-> IF s = DefaultSlug THEN {Stored(1, <<1>>, 2)} ELSE {}] }

Init ==
  /\ db \in StoredDbs
  /\ connectionCache = [s \in Slugs |-> NoConn]
  /\ conns = <<>>
  /\ req = [r \in Procs |-> Blank]
  /\ nextId = 2
  /\ issued = 0
  /\ shutdown = NotCalled

Step(r) ==
  \/ Connect(r)
  \/ AddFind(r)
  \/ AddSave(r)
  \/ RemoveFind(r)
  \/ RemoveSave(r)
  \/ CreateFind(r)
  \/ CreateSave(r)
  \/ DuplicateFind(r)
  \/ DuplicateProbe(r)
  \/ DuplicateSave(r)
  \/ TransferFind(r)
  \/ TransferConnect(r)
  \/ TransferProbe(r)
  \/ TransferSave(r)
  \/ TransferDelete(r)
  \/ UpdateFind(r)
  \/ UpdateCheck(r)
  \/ UpdateSave(r)
  \/ DeleteFind(r)
  \/ DeleteDelete(r)

(* requests overlap: a request may arrive while another is between two     *)
(* awaits                                                                  *)
Receive(r) ==
  \E rq \in As(LedgerRequests({<<1>>}, 1..MaxQty, {"cat1"}, {<<1, 1>>}),
               {SuperAdmin}),
     header \in {NoHeader, "acme"} :
    Start(r, rq, header, MaxOps)

Next == \E r \in Procs : Receive(r) \/ Step(r)

Spec == Init /\ [][Next]_vars

(* requests one at a time: the next arrives after the previous response *)
ReceiveSeq(r) ==
  \E rq \in As(LedgerRequests(BarcodeInputs, QtyInputs, CategoryInputs,
                              {NoBarcode} \cup BarcodeInputs),
               {SuperAdmin}),
     header \in Headers :
    Start(r, rq, header, MaxSeqOps)

SeqNext == \E r \in {1} : ReceiveSeq(r) \/ Step(r)

SeqSpec == Init /\ [][SeqNext]_vars

(* every principal and every x-company-slug, one request at a time *)
ReceiveAny(r) ==
  \E rq \in As(LedgerRequests({<<1>>}, {1}, {"cat1"}, {<<1, 1>>}), Users),
     header \in Headers :
    Start(r, rq, header, MaxSeqOps)

AccessNext == \E r \in {1} : ReceiveAny(r) \/ Step(r)

AccessSpec == Init /\ [][AccessNext]_vars

(* the registry over its whole life: one request at a time, while          *)
(* connections are lost and closeAllConnections runs                       *)
ReceiveOne(r) ==
  \E rq \in As(LedgerRequests({<<1>>}, {1}, {"cat1"}, {<<1, 1>>}), {SuperAdmin}),
     header \in Headers :
    Start(r, rq, header, MaxSeqOps)

RegistryNext ==
  \/ \E r \in {1} : ReceiveOne(r) \/ Step(r) \/ Health(r, MaxSeqOps)
  \/ \E c \in 1..Len(conns) : Drop(c)
  \/ CloseAllStart
  \/ CloseAllSettle

RegistrySpec == Init /\ [][RegistryNext]_vars

(* stock calls on a company that holds two products; calls that overlap    *)
(* are for different products                                              *)
ApartInit ==
  /\ db = [s \in Slugs |->
             IF s = DefaultSlug
             THEN {Stored(1, <<1>>, 2), Stored(2, <<1, 1>>, 1)} ELSE {}]
  /\ connectionCache = [s \in Slugs |-> NoConn]
  /\ conns = <<>>
  /\ req = [r \in Procs |-> Blank]
  /\ nextId = 3
  /\ issued = 0
  /\ shutdown = NotCalled

ReceiveApart(r) ==
  \E rq \in As(StockRequests(BarcodeInputs, 1..MaxQty), {SuperAdmin}) :
    /\ \A other \in Procs \ {r} :
         req[other].pc \notin {"idle", "done"}
         => Trim(req[other].barcode) # Trim(rq.barcode)
    /\ Start(r, rq, NoHeader, MaxOps)

StockStep(r) ==
  \/ Connect(r)
  \/ AddFind(r)
  \/ AddSave(r)
  \/ RemoveFind(r)
  \/ RemoveSave(r)

ApartNext == \E r \in Procs : ReceiveApart(r) \/ StockStep(r)

ApartSpec == ApartInit /\ [][ApartNext]_vars

----------------------------------------------------------------------------
(* Properties *)

Products == UNION {db[s] : s \in Slugs}

RECURSIVE SignedSum(_)
SignedSum(h) ==
  IF h = <<>> THEN 0
  ELSE (IF Head(h).type = "add" THEN Head(h).quantity ELSE 0 - Head(h).quantity)
         + SignedSum(Tail(h))

InFlight(r) == req[r].pc \notin {"idle", "done"}

(* slot r takes a step of the request it is serving *)
Acts(r) == InFlight(r) /\ req'[r] # req[r]

Answers(r, status, message) ==
  req'[r].pc = "done" /\ req'[r].res = Response(status, message)

(* C1: with requests served one at a time, the currentStock of every        *)
(* product of every company equals the quantities of its 'add' movements    *)
(* minus the quantities of its 'remove' movements.                          *)
C1_StockIsSignedSum ==
  \A p \in Products : p.currentStock = SignedSum(p.stockHistory)

C1_Witness ==
  \E p \in Products :
    /\ Len(p.stockHistory) >= 2
    /\ \E i \in 1..Len(p.stockHistory) : p.stockHistory[i].type = "remove"
    /\ p.currentStock > 0

(* C2: overlapping add-stock / remove-stock calls on one product serialize: *)
(* a call that succeeds changes the stored counter by exactly its own       *)
(* quantity (it has seen every earlier update), and the counter still       *)
(* equals the signed sum of the history.                                    *)
C2_StockCallsSerialize ==
  [][\A r \in Procs :
       (req[r].pc \in {"add_save", "remove_save"} /\ Acts(r)
          /\ req'[r].res.status = 200)
       => LET before == FindById(db[req[r].companySlug], req[r].doc.id)
              after == FindById(db'[req[r].companySlug], req[r].doc.id)
              delta == IF req[r].op = "add" THEN req[r].quantity
                       ELSE 0 - req[r].quantity
          IN /\ after.currentStock = before.currentStock + delta
             /\ after.currentStock = SignedSum(after.stockHistory)]_vars

(* C3: a remove-stock call whose quantity exceeds the product's             *)
(* currentStock answers 400 "Insufficient stock" and writes nothing.        *)
C3_InsufficientLeavesUnchanged ==
  [][\A r \in Procs :
       (/\ req[r].pc = "remove_find" /\ Acts(r)
        /\ FindOne(Coll(r), Trim(req[r].barcode)) # NoDoc
        /\ req[r].quantity
             > FindOne(Coll(r), Trim(req[r].barcode)).currentStock)
       => Answers(r, 400, "Insufficient stock") /\ db' = db]_vars

C3_Witness ==
  \E r \in Procs :
    /\ req[r].op = "remove"
    /\ req[r].res = Response(400, "Insufficient stock")
    /\ Products # {}

(* C4: in every reachable state, overlapping remove-stock calls included,   *)
(* the currentStock of every product is at least 0.                         *)
C4_StockNeverNegative == \A p \in Products : p.currentStock >= 0

(* two removes that overlapped have both been saved: the history sums to    *)
(* less than nothing                                                        *)
C4_Witness ==
  \E p \in Products :
    /\ SignedSum(p.stockHistory) < 0
    /\ Len(p.stockHistory) >= 3
    /\ p.stockHistory[Len(p.stockHistory)].type = "remove"

(* C5: single-flight: however many requests ask for the connection of one   *)
(* company that has none cached, one connection is created for it.          *)
C5_SingleFlight ==
  \A i, j \in 1..Len(conns) :
    (conns[i].slug = conns[j].slug
       /\ conns[i].readyState = Connected /\ conns[j].readyState = Connected)
    => i = j

(* C6: when the destination cannot be reached or the save of the copy is    *)
(* rejected, the transfer answers its ordinary 500 and has written nothing: *)
(* no step of a transfer up to and including the failed save changes any    *)
(* collection.                                                              *)
C6_TransferFailSafe ==
  [][\A r \in Procs :
       (req[r].op = "transfer" /\ Acts(r))
       => /\ req[r].pc \in {"transfer_find", "transfer_connecting",
                            "transfer_probe"} => db' = db
          /\ (/\ req[r].pc \in {"transfer_connecting", "transfer_save"}
              /\ req'[r].pc = "done" /\ req'[r].res.status # 200)
             => db' = db /\ Answers(r, 500, "Failed to transfer product")]_vars

C6_Witness ==
  \E r \in Procs :
    /\ req[r].op = "transfer"
    /\ req[r].at \in {"transfer_connecting", "transfer_save"}
    /\ req[r].res.status = 500
    /\ Products # {}
    /\ \A p \in Products :
         \A i \in 1..Len(p.stockHistory) :
           p.stockHistory[i].note[1] # "Transferred from"

(* C7: a transfer whose copy was saved and whose deleteOne then failed      *)
(* answers differently from a transfer whose copy could not be created.     *)
C7_PartialTransferDistinct ==
  \A r1, r2 \in Procs :
    (/\ req[r1].op = "transfer" /\ req[r1].at = "transfer_delete"
     /\ req[r1].res.status # 200
     /\ req[r2].op = "transfer"
     /\ req[r2].at \in {"transfer_connecting", "transfer_save"}
     /\ req[r2].res.status # 200)
    => req[r1].res # req[r2].res

(* C8: with requests served one at a time, a transfer that answers 200 and  *)
(* found the source barcode unused in the target leaves there a product     *)
(* with that barcode, the source's currentStock and a history of one 'add'; *)
(* the source company keeps the product as it was when keepOriginal is set  *)
(* and no longer has it otherwise.                                          *)
C8_TransferHappyPath ==
  [][\A r \in Procs :
       (/\ req[r].op = "transfer" /\ Acts(r)
        /\ req'[r].pc = "done" /\ req'[r].res.status = 200
        /\ req[r].counter = 0)
       => LET B == req[r].doc.barcode
              copy == FindOne(db'[req[r].targetCompanySlug], B)
              orig == FindOne(db'[req[r].companySlug], B)
          IN /\ copy # NoDoc
             /\ copy.currentStock = req[r].doc.currentStock
             /\ Len(copy.stockHistory) = 1
             /\ copy.stockHistory[1].type = "add"
             /\ IF req[r].keepOriginal
                THEN /\ orig = req[r].doc
                     /\ req'[r].res.message = "Product copied to target company"
                ELSE /\ orig = NoDoc
                     /\ req'[r].res.message
                          = "Product transferred to target company"]_vars

C8_Witness ==
  \E r \in Procs :
    /\ req[r].op = "transfer"
    /\ req[r].res = Response(200, "Product transferred to target company")
    /\ LET copy == FindById(db[req[r].targetCompanySlug], req[r].savedId)
       IN /\ copy # NoDoc
          /\ copy.currentStock > 0
          /\ \A s \in Slugs \ {req[r].targetCompanySlug} :
               FindOne(db[s], copy.barcode) = NoDoc

(* C9 as stated: at the moment a transfer deletes its source, the copy it   *)
(* saved in the target exists.                                              *)
C9_CopyExistsWhenSourceDeleted ==
  [][\A r \in Procs :
       (req[r].pc = "transfer_delete" /\ Acts(r) /\ db' # db)
       => FindById(db'[req[r].targetCompanySlug], req[r].savedId) # NoDoc]_vars

(* C9, amended: a transfer changes the source collection only in its        *)
(* deleteOne step, which it reaches only with keepOriginal unset and after  *)
(* its own save of the copy has succeeded.                                  *)
C9_DeleteOnlyAfterSave ==
  [][\A r \in Procs :
       (/\ req[r].op = "transfer" /\ Acts(r)
        /\ db'[req[r].companySlug] # db[req[r].companySlug])
       => /\ req[r].pc = "transfer_delete"
          /\ req[r].savedId # 0
          /\ ~req[r].keepOriginal]_vars

C9_Witness ==
  \E r \in Procs :
    /\ req[r].op = "transfer"
    /\ req[r].at = "transfer_delete"
    /\ req[r].res.status = 200
    /\ FindById(db[req[r].targetCompanySlug], req[r].savedId) # NoDoc
    /\ db[CHOOSE s \in Slugs : s # req[r].targetCompanySlug] = {}

(* C10: a principal that is no super admin and has an empty companyAccess   *)
(* list is let through for the default company and answered 403 for any     *)
(* other company.                                                           *)
C10_LegacyOnlyDefault ==
  \A r \in Procs :
    (req[r].pc # "idle" /\ LegacyAccess(req[r].user)
       /\ ~req[r].user.isSuperAdmin)
    => IF req[r].companySlug = DefaultSlug
       THEN req[r].res.status # 403
       ELSE req[r].pc = "done"
            /\ req[r].res = Response(403, "No access to this company")

(* slot r receives a request in this step *)
Received(r) == issued' = issued + 1 /\ req'[r] # req[r]

(* C11: a principal that is no super admin and whose non-empty              *)
(* companyAccess list does not hold the requested company is answered 403   *)
(* "No access to this company", and getCompanyConnection is not called:     *)
(* connectionCache and the connections are as before.                       *)
C11_DeniedWithoutAcquire ==
  [][\A r \in Procs :
       (/\ Received(r)
        /\ ~req'[r].user.isSuperAdmin
        /\ req'[r].user.companyAccess # {}
        /\ req'[r].companySlug \notin req'[r].user.companyAccess)
       => /\ Answers(r, 403, "No access to this company")
          /\ connectionCache' = connectionCache
          /\ conns' = conns]_vars

C11_Witness ==
  \E r \in Procs :
    /\ req[r].res = Response(403, "No access to this company")
    /\ ~req[r].user.isSuperAdmin
    /\ req[r].user.companyAccess # {}
    /\ req[r].companySlug \notin req[r].user.companyAccess
    /\ connectionCache[req[r].companySlug] = NoConn

(* C12: companyMiddleware answers its 403 only to a principal that is no    *)
(* super admin and whose companyAccess list does not hold the requested     *)
(* company; every request it lets through to a handler carries a connection *)
(* that getCompanyConnection returned for exactly req.companySlug.          *)
C12_AdmittedToRequestedTenant ==
  /\ [](\A r \in Procs :
         (InFlight(r) /\ req[r].pc # "connecting")
         => /\ req[r].conn \in 1..Len(conns)
            /\ conns[req[r].conn].slug = req[r].companySlug)
  /\ [][\A r \in Procs :
         (Received(r) /\ req'[r].res = Response(403, "No access to this company"))
         => /\ ~req'[r].user.isSuperAdmin
            /\ req'[r].companySlug \notin req'[r].user.companyAccess]_vars

C12_Witness ==
  \E r \in Procs :
    /\ InFlight(r) /\ req[r].pc # "connecting"
    /\ ~req[r].user.isSuperAdmin
    /\ req[r].companySlug \in req[r].user.companyAccess
    /\ req[r].companySlug # DefaultSlug
    /\ conns[req[r].conn].slug = req[r].companySlug

(* C13: a request without x-company-slug is handled exactly as the same     *)
(* request with the header set to config.DEFAULT_COMPANY_SLUG: the same     *)
(* answer or the same next await, on the same connection.                   *)
C13_NoSelectorIsDefault ==
  [][\A r \in Procs :
       \A rq \in As(LedgerRequests({<<1>>}, {1}, {"cat1"}, {<<1, 1>>}), Users) :
         Start(r, rq, NoHeader, MaxSeqOps) <=> Start(r, rq, DefaultSlug, MaxSeqOps)]_vars

C13_Witness ==
  \E r \in Procs :
    /\ InFlight(r) /\ req[r].pc # "connecting"
    /\ req[r].user = BothUser
    /\ req[r].companySlug = RequestedSlug(NoHeader)
    /\ conns[req[r].conn].slug = DefaultSlug

(* the Map holds a connection for slug and its readyState is 1 *)
CachedLive(slug) ==
  /\ connectionCache[slug] # NoConn
  /\ conns[connectionCache[slug]].readyState = Connected

CachedStale(slug) ==
  /\ connectionCache[slug] # NoConn
  /\ conns[connectionCache[slug]].readyState # Connected

(* C14: getCompanyConnection for a company whose cached connection has      *)
(* readyState 1 returns that connection, creates none and leaves            *)
(* connectionCache as it was; so for the company of a request and for the   *)
(* target of a transfer.                                                    *)
C14_LiveHandleReused ==
  [][\A r \in Procs :
       /\ (Received(r) /\ InFlight(r)' /\ CachedLive(req'[r].companySlug))
          => /\ req'[r].conn = connectionCache[req'[r].companySlug]
             /\ req'[r].pc # "connecting"
             /\ connectionCache' = connectionCache
             /\ conns' = conns
       /\ (/\ req[r].pc = "transfer_find" /\ Acts(r) /\ InFlight(r)'
           /\ CachedLive(req[r].targetCompanySlug))
          => /\ req'[r].targetConn = connectionCache[req[r].targetCompanySlug]
             /\ req'[r].pc = "transfer_probe"
             /\ connectionCache' = connectionCache
             /\ conns' = conns]_vars

C14_Witness ==
  \E r \in Procs :
    /\ InFlight(r) /\ req[r].pc # "connecting"
    /\ issued >= 2
    /\ Len(conns) = 1
    /\ req[r].conn = 1
    /\ CachedLive(req[r].companySlug)
    /\ shutdown.pc = "idle"

(* C15: when createConnection fails, the call is answered with the          *)
(* connection error, nothing is put into connectionCache for that company,  *)
(* and a later request for a company with no cached connection goes through *)
(* createConnection again.                                                  *)
C15_FailureNotCached ==
  [][\A r \in Procs :
       /\ (req[r].pc = "connecting" /\ Acts(r) /\ req'[r].res.status = 500)
          => /\ Answers(r, 500, "Failed to connect to company database")
             /\ connectionCache' = connectionCache
             /\ conns' = conns
             /\ connectionCache'[req[r].companySlug] = NoConn
       /\ (/\ req[r].pc = "transfer_connecting" /\ Acts(r)
           /\ req'[r].res.status = 500)
          => /\ connectionCache' = connectionCache
             /\ conns' = conns
             /\ connectionCache'[req[r].targetCompanySlug] = NoConn
       /\ (/\ Received(r) /\ InFlight(r)'
           /\ connectionCache[req'[r].companySlug] = NoConn)
          => req'[r].pc = "connecting"]_vars

C15_Witness ==
  \E r \in Procs :
    /\ req[r].res = Response(500, "Failed to connect to company database")
    /\ req[r].at = "connecting"
    /\ Entries(connectionCache) = {}
    /\ conns = <<>>

(* C16: a cached connection whose readyState is not 1 is deleted from       *)
(* connectionCache when getCompanyConnection finds it, and a connection     *)
(* that createConnection returns is live, is the Map's entry for its        *)
(* company and is the one handed to the caller.                             *)
C16_StaleHandleReplaced ==
  [][/\ \A r \in Procs :
         /\ (Received(r) /\ InFlight(r)' /\ CachedStale(req'[r].companySlug))
            => /\ connectionCache'[req'[r].companySlug] = NoConn
               /\ req'[r].pc = "connecting"
         /\ (/\ req[r].pc = "transfer_find" /\ Acts(r) /\ InFlight(r)'
             /\ CachedStale(req[r].targetCompanySlug))
            => /\ connectionCache'[req[r].targetCompanySlug] = NoConn
               /\ req'[r].pc = "transfer_connecting"
     /\ Len(conns') = Len(conns) + 1
        => LET c == Len(conns')
           IN /\ conns'[c].readyState = Connected
              /\ connectionCache'[conns'[c].slug] = c
              /\ \A r \in Procs :
                   (Acts(r) /\ InFlight(r)')
                   => req'[r].conn = c \/ req'[r].targetConn = c]_vars

C16_Witness ==
  \E slug \in Slugs :
    /\ CachedLive(slug)
    /\ \E c \in 1..Len(conns) :
         /\ c < connectionCache[slug]
         /\ conns[c].slug = slug
         /\ conns[c].readyState = Disconnected
    /\ shutdown.pc = "idle"

(* C17: when closeAllConnections is over, connectionCache is empty and      *)
(* every connection it held is closed, a connection whose own close() was   *)
(* rejected aside; also when some of them were closed already or fail to    *)
(* close.                                                                   *)
C17_CloseAllClosesAll ==
  [][(shutdown.pc # "done" /\ shutdown'.pc = "done")
     => /\ Entries(connectionCache') = {}
        /\ \A c \in Entries(connectionCache) :
             (shutdown'.res = "rejected" /\ c = shutdown'.at)
             \/ conns'[c].readyState # Connected]_vars

(* C18: GET /api/health answers with one entry for every company that has   *)
(* a connection in connectionCache, and for no other; each entry carries    *)
(* that connection's readyState and says 'connected' exactly when it is 1;  *)
(* connectionCache and the connections are left as they were.               *)
C18_StatusOfEveryHandle ==
  [][\A r \in Procs :
       (Received(r) /\ req'[r].op = "health")
       => LET cached == {s \in Slugs : connectionCache[s] # NoConn}
              connections == req'[r].connections
          IN /\ {e[1] : e \in connections} = cached
             /\ Cardinality(connections) = Cardinality(cached)
             /\ \A e \in connections :
                  /\ e[2] = conns[connectionCache[e[1]]].readyState
                  /\ (e[3] = "connected") <=> (e[2] = Connected)
             /\ connectionCache' = connectionCache
             /\ conns' = conns]_vars

C18_Witness ==
  \E r \in Procs :
    /\ req[r].op = "health"
    /\ Cardinality(req[r].connections) = 2
    /\ \E e \in req[r].connections : e[2] = Connected
    /\ \E e \in req[r].connections : e[2] = Disconnected

(* C19: a create request whose barcode is taken in its company, whether it *)
(* was taken before the request arrived or by an overlapping create, is     *)
(* answered 409 "Product with this barcode already exists" and writes       *)
(* nothing.                                                                 *)
C19_DuplicateBarcodeReported ==
  [][\A r \in Procs :
       (/\ req[r].pc \in {"create_find", "create_save"} /\ Acts(r)
        /\ FindOne(Coll(r), Trim(req[r].barcode)) # NoDoc)
       => /\ Answers(r, 409, "Product with this barcode already exists")
          /\ db' = db]_vars

(* C20: with requests served one at a time, a create request answered 201   *)
(* has stored a product whose currentStock is the initial quantity and      *)
(* whose history is the one 'add' of that quantity when it is positive, and *)
(* whose currentStock is 0 and history empty when it is 0 or absent.        *)
C20_CreatedStockAndHistory ==
  [][\A r \in Procs :
       (req[r].pc = "create_save" /\ Acts(r) /\ req'[r].res.status = 201)
       => LET p == FindOne(db'[req[r].companySlug], Trim(req[r].barcode))
              q == req[r].quantity
          IN /\ p # NoDoc
             /\ p \notin db[req[r].companySlug]
             /\ IF q > 0
                THEN /\ p.currentStock = q
                     /\ Len(p.stockHistory) = 1
                     /\ p.stockHistory[1].type = "add"
                     /\ p.stockHistory[1].quantity = q
                ELSE /\ p.currentStock = 0
                     /\ p.stockHistory = <<>>]_vars

C20_Witness ==
  \E r \in Procs :
    /\ req[r].op = "create" /\ req[r].res.status = 201
    /\ \E p \in Products :
         /\ p.id = nextId - 1
         /\ p.currentStock = MaxQty
         /\ p.stockHistory = InitialHistory(MaxQty)

(* C21: an add-stock or remove-stock request whose quantity is not above   *)
(* 0 is answered 400 before the handler's first query, one whose barcode    *)
(* is not stored in the company is answered 404 "Product not found", and    *)
(* neither writes anything.                                                 *)
C21_StockRejections ==
  [][\A r \in Procs :
       /\ (InFlight(r)' /\ req'[r].op \in {"add", "remove"}
             /\ req'[r].pc # "connecting")
          => req'[r].quantity > 0
       /\ (/\ req'[r].op \in {"add", "remove"}
           /\ Received(r) \/ (req[r].pc = "connecting" /\ Acts(r)))
          => /\ db' = db
             /\ (req'[r].pc = "done" /\ Len(conns') = Len(conns) + 1)
                => Answers(r, 400, "Valid quantity is required")
             /\ (req'[r].pc = "done" /\ Received(r))
                => Answers(r, 400, "Valid quantity is required")
       /\ (/\ req[r].pc \in {"add_find", "remove_find"} /\ Acts(r)
           /\ \A p \in Coll(r) : p.barcode # Trim(req[r].barcode))
          => /\ Answers(r, 404, "Product not found")
             /\ db' = db]_vars

C21_Witness ==
  \E r \in Procs :
    /\ req[r].op \in {"add", "remove"}
    /\ req[r].res = Response(400, "Valid quantity is required")
    /\ req[r].at = "connecting"
    /\ Products # {}

InUse(coll) == {p.barcode : p \in coll}

(* C23: with requests served one at a time, the barcode computation of a    *)
(* transfer whose source barcode is unused in the target company settles on *)
(* the source barcode itself, and no query of a barcode computation writes  *)
(* anything: asked again over the same collection it settles on the same    *)
(* barcode.                                                                 *)
C23_UnusedBaseIsKept ==
  [][\A r \in Procs :
       /\ (req[r].pc \in {"transfer_probe", "duplicate_probe"} /\ Acts(r))
          => db' = db
       /\ (/\ req[r].pc = "transfer_probe" /\ Acts(r)
           /\ req[r].doc.barcode \notin InUse(db[req[r].targetCompanySlug]))
          => /\ req'[r].pc = "transfer_save"
             /\ req'[r].cand = req[r].doc.barcode
             /\ req'[r].counter = 0]_vars

C23_Witness ==
  \E r \in Procs :
    /\ req[r].pc = "transfer_save"
    /\ req[r].counter = 0
    /\ req[r].cand = req[r].doc.barcode
    /\ req[r].cand \notin InUse(db[req[r].targetCompanySlug])
    /\ issued = 2

(* C24: with requests served one at a time, a barcode computation over a    *)
(* base that is in use settles on base(k) for the smallest k >= 1 whose     *)
(* base(k) is unused in the collection it queries: base, base(1), ...,      *)
(* base(k-1) are in use and the barcode it settles on is not.               *)
C24_SmallestFreeSuffix ==
  [][\A r \in Procs :
       (/\ req[r].pc \in {"transfer_probe", "duplicate_probe"} /\ Acts(r)
        /\ req'[r].pc \in {"transfer_save", "duplicate_save"})
       => LET coll == IF req[r].op = "transfer"
                      THEN db[req[r].targetCompanySlug] ELSE Coll(r)
              base == IF req[r].op = "transfer"
                      THEN req[r].doc.barcode ELSE req[r].barcode
          IN /\ req'[r].cand \notin InUse(coll)
             /\ base \in InUse(coll)
                => \E k \in 1..(Cardinality(coll) + 1) :
                     /\ req'[r].cand = Append(base, k)
                     /\ \A j \in 1..(k - 1) : Append(base, j) \in InUse(coll)]_vars

(* X and X(1) are in use and the computation has settled on X(2) *)
C24_Witness ==
  \E r \in Procs :
    /\ req[r].pc \in {"transfer_save", "duplicate_save"}
    /\ req[r].cand = <<1, 2>>
    /\ {<<1>>, <<1, 1>>} \subseteq InUse(Coll(r))
    /\ req[r].op = "duplicate"

(* C25: a duplicate or transfer that comes to save its copy when the        *)
(* barcode it settled on has just been taken by an overlapping flow does    *)
(* not fail: it goes on to the next candidate.                              *)
C25_RaceContinuesProbing ==
  [][\A r \in Procs :
       (/\ req[r].pc \in {"duplicate_save", "transfer_save"} /\ Acts(r)
        /\ Trim(req[r].cand)
             \in InUse(IF req[r].op = "transfer"
                       THEN db[req[r].targetCompanySlug] ELSE Coll(r))
        /\ \E other \in Procs \ {r} : req[other].op \in {"duplicate", "transfer"})
       => /\ req'[r].res.status # 500
          /\ req'[r].pc \in {"duplicate_probe", "transfer_probe"}]_vars

(* C26: with requests served one at a time, a duplicate answered 201 has    *)
(* added to the company one product, under a barcode no stored product had, *)
(* with the source's name, category and currentStock and a history of       *)
(* exactly one 'add' noted "Duplicated from" the source, whatever the       *)
(* source's currentStock, 0 included; every other product is as it was.     *)
C26_DuplicateCopy ==
  [][\A r \in Procs :
       (req[r].pc = "duplicate_save" /\ Acts(r) /\ req'[r].res.status = 201)
       => LET slug == req[r].companySlug
              copy == FindById(db'[slug], nextId)
              source == req[r].doc
          IN /\ copy # NoDoc
             /\ db' = [db EXCEPT ![slug] = db[slug] \cup {copy}]
             /\ source \in db'[slug]
             /\ copy.barcode \notin InUse(db[slug])
             /\ copy.name = source.name
             /\ copy.category = source.category
             /\ copy.currentStock = source.currentStock
             /\ Len(copy.stockHistory) = 1
             /\ copy.stockHistory[1].type = "add"
             /\ copy.stockHistory[1].quantity = source.currentStock
             /\ copy.stockHistory[1].note[1] = "Duplicated from"]_vars

(* C27: a transfer whose targetCompanySlug is the request's own company is *)
(* answered 400 "Cannot transfer to the same company" as soon as the        *)
(* handler runs: it never reaches one of the handler's queries, takes no    *)
(* connection for the target and writes nothing.                            *)
C27_SameCompanyRejected ==
  [][\A r \in Procs :
       /\ (InFlight(r)' /\ req'[r].op = "transfer" /\ req'[r].pc # "connecting")
          => /\ req'[r].targetCompanySlug # req'[r].companySlug
             /\ req'[r].targetCompanySlug # ""
       /\ (/\ req[r].pc = "connecting" /\ Acts(r) /\ req[r].op = "transfer"
           /\ req[r].targetCompanySlug = req[r].companySlug)
          => /\ db' = db
             /\ req'[r].pc = "done"
             /\ Len(conns') = Len(conns) + 1
                => Answers(r, 400, "Cannot transfer to the same company")
       /\ (Received(r) /\ req'[r].op = "transfer" /\ req'[r].pc = "done")
          => /\ db' = db
             /\ conns' = conns
             /\ connectionCache' = connectionCache
             /\ req'[r].res.status = 400]_vars

C27_Witness ==
  \E r \in Procs :
    /\ req[r].op = "transfer"
    /\ req[r].res = Response(400, "Cannot transfer to the same company")
    /\ req[r].at = "connecting"
    /\ Products # {}
    /\ Len(conns) = 1

(* C28: a transfer whose barcode is not stored in the request's company is  *)
(* answered 404 "Product not found"; it takes no connection for the target  *)
(* and writes nothing.                                                      *)
C28_TransferSourceNotFound ==
  [][\A r \in Procs :
       (/\ req[r].pc = "transfer_find" /\ Acts(r)
        /\ req[r].targetCompanySlug \in ActiveCompanies
        /\ \A p \in Coll(r) : p.barcode # Trim(req[r].barcode))
       => /\ Answers(r, 404, "Product not found")
          /\ db' = db
          /\ conns' = conns
          /\ connectionCache' = connectionCache]_vars

C28_Witness ==
  \E r \in Procs :
    /\ req[r].op = "transfer"
    /\ req[r].at = "transfer_find"
    /\ req[r].res = Response(404, "Product not found")
    /\ Products # {}

(* base if it is unused in coll, else base(k) for the least k whose        *)
(* base(k) is unused                                                        *)
FirstFree(coll, base) ==
  IF base \notin InUse(coll) THEN base
  ELSE Append(base,
              CHOOSE k \in 1..(Cardinality(coll) + 1) :
                /\ Append(base, k) \notin InUse(coll)
                /\ \A j \in 1..(k - 1) : Append(base, j) \in InUse(coll))

(* C29: with requests served one at a time, the product a transfer saves    *)
(* in the target company has the first barcode free there counting from     *)
(* the source's barcode, the source's name and currentStock, no category    *)
(* whatever the source's, and a history of exactly one 'add' of the         *)
(* source's currentStock noted "Transferred from" the source company.       *)
C29_TransferredAggregate ==
  [][\A r \in Procs :
       (req[r].pc = "transfer_save" /\ Acts(r) /\ db' # db)
       => LET target == req[r].targetCompanySlug
              source == req[r].doc
              copy == FindById(db'[target], nextId)
          IN /\ copy # NoDoc
             /\ db' = [db EXCEPT ![target] = db[target] \cup {copy}]
             /\ copy.barcode = FirstFree(db[target], source.barcode)
             /\ copy.name = source.name
             /\ copy.currentStock = source.currentStock
             /\ copy.category = None
             /\ copy.stockHistory
                  = <<Movement("add", source.currentStock,
                               Note("Transferred from", <<>>, req[r].companySlug))>>]_vars

(* a copy under a suffixed barcode, of a source that has a category *)
C29_Witness ==
  \E r \in Procs, s \in Slugs :
    /\ req[r].op = "transfer" /\ req[r].res.status = 200
    /\ \E copy \in db[s] :
         /\ copy.id = nextId - 1
         /\ Len(copy.barcode) = 2
         /\ copy.category = None
         /\ copy.stockHistory[1].note = Note("Transferred from", <<>>, DefaultSlug)
         /\ \E source \in db[DefaultSlug] :
              /\ source.category # None
              /\ copy.barcode = Append(source.barcode, 1)

(* C30: no company holds two products with the same barcode, under every    *)
(* interleaving of create, duplicate, transfer, update and delete requests. *)
C30_BarcodeUniquePerTenant ==
  \A s \in Slugs :
    \A p, q \in db[s] : p.barcode = q.barcode => p = q

(* the same barcode in both companies, one of them stored by a request *)
C30_Witness ==
  /\ \E p \in db["barcode"], q \in db["acme"] : p.barcode = q.barcode
  /\ \E s \in Slugs : Cardinality(db[s]) = 2

(* C31: with requests served one at a time, an update whose newBarcode is  *)
(* the barcode of another product of the company is answered 400 and        *)
(* changes nothing; one whose newBarcode is unused goes on to its save,     *)
(* and once that save is stored the product is found under the new          *)
(* barcode only, with the currentStock and the history it had, and every    *)
(* other product is as it was.                                              *)
C31_UpdateBarcode ==
  [][\A r \in Procs :
       /\ (req[r].pc = "update_check" /\ Acts(r))
          => IF \E p \in Coll(r) : p.barcode = Trim(req[r].newBarcode)
             THEN /\ Answers(r, 400, "A product with this barcode already exists")
                  /\ db' = db
             ELSE req'[r].pc = "update_save" /\ db' = db
       /\ (/\ req[r].pc = "update_save" /\ Acts(r)
           /\ req[r].newBarcode # NoBarcode
           /\ Trim(req[r].newBarcode) # Trim(req[r].barcode))
          => \/ Answers(r, 500, "Failed to update product") /\ db' = db
             \/ LET slug == req[r].companySlug
                    old == FindById(db[slug], req[r].doc.id)
                    new == FindById(db'[slug], req[r].doc.id)
                IN /\ Answers(r, 200, "ok")
                   /\ old # NoDoc /\ new # NoDoc
                   /\ old.barcode = Trim(req[r].barcode)
                   /\ new.barcode = Trim(req[r].newBarcode)
                   /\ new.currentStock = old.currentStock
                   /\ new.stockHistory = old.stockHistory
                   /\ \A p \in db'[slug] : p.barcode # Trim(req[r].barcode)
                   /\ \A p \in db'[slug] : p.barcode = new.barcode => p = new
                   /\ db' = [db EXCEPT ![slug] = (db[slug] \ {old}) \cup {new}]]_vars

(* a rejected change of barcode in a company that holds two products *)
C31_Witness ==
  \E r \in Procs, s \in Slugs :
    /\ req[r].op = "update"
    /\ req[r].at = "update_check"
    /\ req[r].res = Response(400, "A product with this barcode already exists")
    /\ {p.barcode : p \in db[s]} = {<<1>>, <<1, 1>>}

(* C32: every movement in the history of every product of every company,   *)
(* whichever of create, add-stock, remove-stock, duplicate and transfer     *)
(* wrote it, has a quantity that is a positive integer; the one entry a     *)
(* transfer writes for a source whose currentStock is 0 is no exception.    *)
C32_MovementsPositive ==
  \A p \in Products :
    \A i \in 1..Len(p.stockHistory) :
      p.stockHistory[i].quantity \in Nat \ {0}

IsPrefix(h, g) == Len(h) <= Len(g) /\ SubSeq(g, 1, Len(h)) = h

(* C33: no step of any request, alone or overlapping another, shortens or   *)
(* rewrites the history of a product that stays stored: the history before  *)
(* the step is a prefix of the history after it.  The save of an update     *)
(* changes neither the history nor the currentStock of any product.         *)
C33_HistoryAppendOnly ==
  [][/\ \A s \in Slugs : \A p \in db[s] : \A q \in db'[s] :
          q.id = p.id => IsPrefix(p.stockHistory, q.stockHistory)
     /\ \A r \in Procs :
          (req[r].pc = "update_save" /\ Acts(r))
          => \A s \in Slugs : \A p \in db[s] :
               \E q \in db'[s] : /\ q.id = p.id
                                 /\ q.stockHistory = p.stockHistory
                                 /\ q.currentStock = p.currentStock]_vars

(* an update stored on a product that a stock call has also written *)
C33_Witness ==
  \E r \in Procs :
    /\ req[r].op = "update" /\ req[r].at = "update_save"
    /\ req[r].res.status = 200
    /\ \E p \in Products : p.name = "n2" /\ Len(p.stockHistory) = 2

(* C34: a stock call writes to the one product it read and to nothing       *)
(* else, in its company or in any other.  When the calls that overlap are   *)
(* for different products, the product a call saves is still stored as the  *)
(* call read it, so the save leaves it with the stock it had plus or minus  *)
(* the quantity and the history it had plus one movement: what the call     *)
(* does is the same whether the other call ran before it or after it.       *)
C34_StockCallsApart ==
  [][\A r \in Procs :
       /\ (Acts(r) /\ req[r].pc \notin {"add_save", "remove_save"}) => db' = db
       /\ Received(r) => db' = db
       /\ (Acts(r) /\ req[r].pc \in {"add_save", "remove_save"})
          => LET slug == req[r].companySlug
                 id == req[r].doc.id
                 stored == FindById(db[slug], id)
                 q == req[r].quantity
             IN /\ \A s \in Slugs \ {slug} : db'[s] = db[s]
                /\ {p \in db'[slug] : p.id # id} = {p \in db[slug] : p.id # id}
                /\ stored = req[r].doc
                /\ \/ db' = db /\ req'[r].res.status = 500
                   \/ /\ req'[r].res.status = 200
                      /\ \E new \in db'[slug] :
                           /\ new.id = id
                           /\ new.barcode = stored.barcode
                           /\ new.currentStock
                                = stored.currentStock
                                    + (IF req[r].op = "add" THEN q ELSE 0 - q)
                           /\ Len(new.stockHistory) = Len(stored.stockHistory) + 1
                           /\ IsPrefix(stored.stockHistory, new.stockHistory)
                           /\ new.stockHistory[Len(new.stockHistory)].type = req[r].op
                           /\ new.stockHistory[Len(new.stockHistory)].quantity = q]_vars

(* two overlapping calls, each stored on its own product *)
C34_Witness ==
  /\ \A r \in Procs : /\ req[r].op \in {"add", "remove"}
                       /\ req[r].res.status = 200
  /\ \A p \in db[DefaultSlug] : Len(p.stockHistory) = 2

(* C35: no step of a create, add-stock, remove-stock, duplicate, update or  *)
(* delete request changes the products of a company other than the          *)
(* request's own, whatever barcodes that company holds.  A transfer writes  *)
(* to the target company only when it saves the copy and to its own         *)
(* company only when it deletes the source, and to no third company.        *)
C35_TenantIsolation ==
  [][\A r \in Procs :
       /\ Received(r) => db' = db
       /\ (Acts(r) /\ req[r].op # "transfer")
          => \A s \in Slugs \ {req[r].companySlug} : db'[s] = db[s]
       /\ (Acts(r) /\ req[r].op = "transfer")
          => /\ \A s \in Slugs \ {req[r].companySlug, req[r].targetCompanySlug} :
                  db'[s] = db[s]
             /\ req[r].pc # "transfer_save"
                  => db'[req[r].targetCompanySlug] = db[req[r].targetCompanySlug]
             /\ req[r].pc # "transfer_delete"
                  => db'[req[r].companySlug] = db[req[r].companySlug]]_vars

(* a stock call stored in one company on a barcode the other company holds *)
(* too, untouched                                                           *)
C35_Witness ==
  \E r \in Procs :
    /\ req[r].op \in {"add", "remove"} /\ req[r].res.status = 200
    /\ db[DefaultSlug] = {Stored(1, <<1>>, 2)}
    /\ \E q \in db["acme"] : q.barcode = <<1>> /\ Len(q.stockHistory) = 2

(* C36: with requests served one at a time, a transfer with keepOriginal    *)
(* comes to its save with a barcode the target company does not hold,       *)
(* however often the same product was copied there before, so the save is   *)
(* not refused for its barcode; once stored, the target holds every         *)
(* product it held, unchanged, and one more, under the first barcode free   *)
(* counting from the source's, and the source company is as it was.         *)
C36_RepeatedCopy ==
  [][\A r \in Procs :
       (req[r].pc = "transfer_save" /\ Acts(r) /\ req[r].keepOriginal)
       => LET target == req[r].targetCompanySlug
          IN /\ Trim(req[r].cand) \notin InUse(db[target])
             /\ \/ Answers(r, 500, "Failed to transfer product") /\ db' = db
                \/ /\ Answers(r, 200, "Product copied to target company")
                   /\ Cardinality(db'[target]) = Cardinality(db[target]) + 1
                   /\ \E copy \in db'[target] \ db[target] :
                        /\ db' = [db EXCEPT ![target] = db[target] \cup {copy}]
                        /\ copy.barcode = FirstFree(db[target], req[r].doc.barcode)
                        /\ \A p \in db[target] :
                             p.id # copy.id /\ p.barcode # copy.barcode]_vars

(* the same product copied twice: the target holds X and X(1), both noted   *)
(* as transferred, and the source is still stored                           *)
C36_Witness ==
  \E r \in Procs :
    /\ req[r].op = "transfer"
    /\ req[r].res = Response(200, "Product copied to target company")
    /\ db[DefaultSlug] = {Stored(1, <<1>>, 2)}
    /\ InUse(db["acme"]) = {<<1>>, <<1, 1>>}
    /\ \A p \in db["acme"] :
         p.stockHistory
           = <<Movement("add", 2, Note("Transferred from", <<>>, DefaultSlug))>>

(* C37: every connection ever created is the one connectionCache holds for *)
(* its company, or is closed: no connection is open that the Map does not   *)
(* reference, whether requests for one company overlapped or a stale        *)
(* connection was replaced.                                                 *)
C37_OpenHandlesAreCached ==
  \A c \in 1..Len(conns) :
    connectionCache[conns[c].slug] = c \/ conns[c].readyState = Disconnected

(* C38: when a moving transfer overlaps an add-stock or remove-stock call   *)
(* on its source product, the stock it carried into the target company,     *)
(* the quantity of the copy's "Transferred from" movement, is the           *)
(* currentStock the source is deleted with: no stored movement of the       *)
(* stock call is left out.                                                  *)
C38_MoveCarriesStock ==
  [][\A r \in Procs :
       (/\ req[r].pc = "transfer_delete" /\ Acts(r) /\ db' # db
        /\ \E other \in Procs \ {r} : req[other].op \in {"add", "remove"}
        /\ FindById(db[req[r].targetCompanySlug], req[r].savedId) # NoDoc)
       => \A p \in db[req[r].companySlug] \ db'[req[r].companySlug] :
            FindById(db[req[r].targetCompanySlug],
                     req[r].savedId).stockHistory[1].quantity
              = p.currentStock]_vars

(* C39: a transfer that names a target other than its own company goes on  *)
(* to its queries exactly when the principal is a super admin, or has the   *)
(* target in its companyAccess list, or has an empty list and the target    *)
(* is the default company; a transfer refused for its target writes         *)
(* nothing.                                                                 *)
C39_TargetAdmittedAsSource ==
  [][\A r \in Procs :
       /\ (/\ req[r].pc = "connecting" /\ Acts(r) /\ req[r].op = "transfer"
           /\ Len(conns') = Len(conns) + 1
           /\ req[r].targetCompanySlug # req[r].companySlug)
          => /\ req'[r].pc = "transfer_find"
                  <=> \/ req[r].user.isSuperAdmin
                      \/ req[r].targetCompanySlug \in req[r].user.companyAccess
                      \/ /\ req[r].user.companyAccess = {}
                         /\ req[r].targetCompanySlug = DefaultSlug
             /\ db' = db
       /\ (/\ Acts(r) \/ Received(r)
           /\ req'[r].op = "transfer"
           /\ req'[r].res = Response(403, "No access to target company"))
          => db' = db]_vars

(* C40: with requests served one at a time, the search for a free barcode   *)
(* in duplicate and in transfer ends within as many lookups as the company  *)
(* searched holds products, plus one: each lookup either settles on its     *)
(* candidate, which no stored product has, or moves on to a candidate not   *)
(* tried before, and the lookup about to be made is never beyond that       *)
(* number.                                                                  *)
C40_SearchBounded ==
  /\ [](\A r \in Procs :
         /\ req[r].pc \in {"duplicate_probe", "duplicate_save"}
            => req[r].counter <= Cardinality(Coll(r)) + 1
         /\ req[r].pc \in {"transfer_probe", "transfer_save"}
            => req[r].counter + 1
                 <= Cardinality(db[req[r].targetCompanySlug]) + 1
         /\ req[r].pc = "duplicate_save"
            => Trim(req[r].cand) \notin InUse(Coll(r))
         /\ req[r].pc = "transfer_save"
            => Trim(req[r].cand) \notin InUse(db[req[r].targetCompanySlug]))
  /\ [][\A r \in Procs :
          (req[r].pc \in {"duplicate_probe", "transfer_probe"} /\ Acts(r))
          => \/ /\ req'[r].pc \in {"duplicate_save", "transfer_save"}
                /\ req'[r].cand = req[r].cand
             \/ /\ req'[r].pc = req[r].pc
                /\ req'[r].counter = req[r].counter + 1
                /\ req'[r].cand[Len(req'[r].cand)] = req'[r].counter]_vars

(* a search that settled on its second candidate in a company of two *)
C40_Witness ==
  \E r \in Procs :
    /\ req[r].pc = "duplicate_save"
    /\ req[r].counter = 2
    /\ Cardinality(Coll(r)) = 2

====
